---- MODULE Spec2Model ----
(***************************************************************************)
(* A model of rmg/structure.py (class Structure): the graph wrapper, the   *)
(* adjacency-list codec, updateAtomTypes and the resonance enumerator.     *)
(*                                                                         *)
(* chem.py (Atom, Bond, the ElectronState / BondType / AtomType tables)    *)
(* and graph.py (Graph) are imported by structure.py but are not part of   *)
(* the sources at hand; the operators that stand for them are written from *)
(* the specification's description of them and are marked so.              *)
(***************************************************************************)
EXTENDS Integers, Sequences, FiniteSets, TLC

(***************************************************************************)
(* Bounds of the model.                                                    *)
(***************************************************************************)
\* number of atoms of the Structure handed to the resonance enumerator
NAtoms == 3
\* largest number of bonds of that Structure
MaxBonds == 3
\* largest number of its atoms that carry free electrons
MaxRadicalAtoms == 1
\* number of Atom objects the callers of the graph wrapper hold
GAtoms == 3
\* number of Bond objects they create
GBonds == 2
\* number of fields of a copied Structure's objects that are changed later
MaxChanges == 1
\* largest number of neighbours of the atom in the middle of the Structure
\* handed to updateAtomTypes
MaxNeighbours == 2
\* largest number of atom lines of a text handed to fromAdjacencyList
MaxLines == 2
\* largest number of bond descriptors of such a text
MaxDescriptors == 2
\* largest number of bonds of the atom whose suggested type is worked out
MaxValence == 4
\* largest number of times one line of a text repeats a bond descriptor
MaxRepeats == 2

(***************************************************************************)
(* chem.py registries, as far as structure.py and the specification name   *)
(* them.                                                                   *)
(***************************************************************************)
\* electron state codes: structure.py names '0', '1', '2S' and '2T'
ElectronStateLabels == {"0", "1", "2S", "2T"}

\* ElectronState.order: the number of free electrons of the state
Order(es) ==
    CASE es = "0" -> 0
      [] es = "1" -> 1
      [] es = "2S" -> 2
      [] es = "2T" -> 2

\* bond type codes: structure.py names 'S', 'D', 'T' and 'B'
BondTypeLabels == {"S", "D", "T", "B"}

\* BondType.order (1, 2, 3, 1.5), doubled so that it stays an integer
Order2(bt) ==
    CASE bt = "S" -> 2
      [] bt = "B" -> 3
      [] bt = "D" -> 4
      [] bt = "T" -> 6

\* Bond.canIncreaseOrder: the order is not already the maximum, 3
canIncreaseOrder(bt) == Order2(bt) < 6

\* Bond.canDecreaseOrder: the order is not already the minimum, 1
canDecreaseOrder(bt) == Order2(bt) > 2

\* Bond.increaseOrder: the next legal order, "raise" where there is none
increaseOrder(bt) ==
    CASE bt = "S" -> "D"
      [] bt = "D" -> "T"
      [] OTHER -> "raise"

\* Bond.decreaseOrder: the previous legal order, "raise" where there is none
decreaseOrder(bt) ==
    CASE bt = "T" -> "D"
      [] bt = "D" -> "S"
      [] OTHER -> "raise"

\* Atom.increaseFreeElectron: the state with one free electron more. Two
\* states have two free electrons; which of them a doublet goes to is a
\* choice of the registry, two.
increaseFreeElectron(es, two) ==
    CASE es = "0" -> "1"
      [] es = "1" -> two
      [] OTHER -> "raise"

\* Atom.decreaseFreeElectron: the state with one free electron fewer
decreaseFreeElectron(es) ==
    CASE es = "1" -> "0"
      [] es \in {"2S", "2T"} -> "1"
      [] OTHER -> "raise"

(***************************************************************************)
(* State.                                                                  *)
(***************************************************************************)
VARIABLES
    \* ---- resonance enumerator -------------------------------------------
    two2,        \* the two-electron state increaseFreeElectron hands out
    elec,        \* atom -> electron state label (Atom.electronState)
    bondType,    \* {atom, atom} -> bond type label (Bond.bondType)
    elec0,       \* elec when getAdjacentResonanceIsomers was called
    bondType0,   \* bondType when it was called
    rpc,         \* position inside getAdjacentResonanceIsomers
    todo,        \* atoms the outer loop has not visited yet
    paths,       \* paths of the current atom not processed yet
    path,        \* the path being processed
    isomers,     \* the list being built
    \* ---- graph wrapper: one Structure, the objects of its callers ---------
    gV,          \* the vertices of self.graph: Atom objects
    gE,          \* the edges of self.graph: {atom, atom} -> Bond object
    atomState,   \* Atom object -> Atom.electronState
    bondAtoms,   \* Bond object -> Bond.atoms, a pair of Atom objects
    bondTypeOf,  \* Bond object -> Bond.bondType
    gCopy,       \* the Structure copy() returned: [made, V, E, clone]
    gSnap,       \* the Structure and its objects' fields when copy() was called
    gLast,       \* the last operation and whether it raised
    \* ---- adjacency-list codec: one Structure and the text exchanged -------
    shape,       \* the description the caller's text was written from
    adjlist,     \* the text: the argument of fromAdjacencyList, or the
                 \* string toAdjacencyList returned
    given,       \* "input": adjlist is the caller's text; "output": it is
                 \* what toAdjacencyList returned
    structure,   \* the Structure: its atoms' and bonds' fields and its graph
    before,      \* the Structure when fromAdjacencyList was last called
    src,         \* the Structure toAdjacencyList last wrote, in the order of
                 \* self.atoms() it used
    apc,         \* the outcome of the last call
    excLabel,    \* the label attribute of the exception it raised
    \* ---- updateAtomTypes: one Structure -----------------------------------
    genericOxygen, \* what isOxygen() gives for an atom of a generic type
    atomTypeOf,  \* atom -> the label of Atom.atomType, or AmbiguousType
    tBond,       \* {atom, atom} -> the label of the bond's type
    tpc,         \* where the two calls of updateAtomTypes are
    tTodo,       \* the atoms the running call has still to visit
    type0,       \* the atom types before the first call
    typeIn,      \* the atom types when the running call began
    type1,       \* the atom types when the first call ended
    tLast,       \* the atom visited last and what was done with it
    counted,     \* the element of an atom and the counts of its bonds
    suggestion   \* the atom type suggested for those counts

resVars == <<two2, elec, bondType, elec0, bondType0, rpc, todo, paths, path, isomers>>

graphVars == <<gV, gE, atomState, bondAtoms, bondTypeOf, gCopy, gSnap, gLast>>

codecVars == <<shape, adjlist, given, structure, before, src, apc, excLabel>>

typeVars == <<genericOxygen, atomTypeOf, tBond, tpc, tTodo, type0, typeIn, type1, tLast,
              counted, suggestion>>

vars == <<resVars, graphVars, codecVars, typeVars>>

Atoms == 1..NAtoms

Pairs == {e \in SUBSET Atoms : Cardinality(e) = 2}

NoPath == <<0, 0, 0>>

(***************************************************************************)
(* The variables of the other parts, held still while one part runs.       *)
(***************************************************************************)
GraphIdle ==
    /\ gV = {}
    /\ gE = <<>>
    /\ atomState = <<>>
    /\ bondAtoms = <<>>
    /\ bondTypeOf = <<>>
    /\ gCopy = [made |-> FALSE, V |-> {}, E |-> <<>>, clone |-> <<>>]
    /\ gSnap = <<>>
    /\ gLast = "none"

NoStructure == [atom |-> <<>>, bond |-> <<>>, g |-> [V |-> {}, E |-> <<>>]]

CodecIdle ==
    /\ shape = <<>>
    /\ adjlist = <<>>
    /\ given = "off"
    /\ structure = NoStructure
    /\ before = NoStructure
    /\ src = <<>>
    /\ apc = "off"
    /\ excLabel = <<>>

NoVisit == [atom |-> 0, branch |-> "none"]

TypesIdle ==
    /\ genericOxygen = "no"
    /\ atomTypeOf = <<>>
    /\ tBond = <<>>
    /\ tpc = "off"
    /\ tTodo = {}
    /\ type0 = <<>>
    /\ typeIn = <<>>
    /\ type1 = <<>>
    /\ tLast = NoVisit
    /\ counted = <<>>
    /\ suggestion = "none"

ResIdle ==
    /\ two2 = "2T"
    /\ elec = <<>>
    /\ bondType = <<>>
    /\ elec0 = <<>>
    /\ bondType0 = <<>>
    /\ rpc = "off"
    /\ todo = {}
    /\ paths = {}
    /\ path = NoPath
    /\ isomers = <<>>

(***************************************************************************)
(* Structure: queries.                                                     *)
(***************************************************************************)
\* Structure.getBonds(atom): the atoms bonded to atom (the keys of the map)
getBonds(bt, atom) == {atom2 \in Atoms : {atom, atom2} \in DOMAIN bt}

RECURSIVE SumOrder(_, _)
SumOrder(el, S) ==
    IF S = {} THEN 0
    ELSE LET a == CHOOSE x \in S : TRUE
         IN Order(el[a]) + SumOrder(el, S \ {a})

\* Structure.getRadicalCount
getRadicalCount(el) == SumOrder(el, DOMAIN el)

\* findAllDelocalizationPaths without the test "atom1 is not atom3"
findAllDelocalizationPaths_AllowBack(el, bt, atom1) ==
    IF Order(el[atom1]) <= 0 THEN {}
    ELSE {p \in {atom1} \X Atoms \X Atoms :
            /\ p[2] \in getBonds(bt, p[1])
            /\ canIncreaseOrder(bt[{p[1], p[2]}])
            /\ p[3] \in getBonds(bt, p[2])
            /\ canDecreaseOrder(bt[{p[2], p[3]}])}

\* Structure.findAllDelocalizationPaths(atom1), as the set of (atom1, atom2,
\* atom3); bond12 and bond23 are the bonds of {atom1, atom2}, {atom2, atom3}
findAllDelocalizationPaths(el, bt, atom1) ==
    IF Order(el[atom1]) <= 0 THEN {}
    ELSE {p \in {atom1} \X Atoms \X Atoms :
            /\ p[2] \in getBonds(bt, p[1])
            /\ canIncreaseOrder(bt[{p[1], p[2]}])
            /\ p[3] \in getBonds(bt, p[2])
            /\ p[1] # p[3]
            /\ canDecreaseOrder(bt[{p[2], p[3]}])}

\* copy that clones the atoms and none of the bonds
copy_AtomsOnly(el, bt) == [elec |-> el, bondType |-> <<>>]

\* Structure.copy, by value: the electron states and bond types of the clone
copy(el, bt) == [elec |-> el, bondType |-> bt]

(***************************************************************************)
(* The in-place steps of getAdjacentResonanceIsomers. A machine m is       *)
(* [elec, bondType, ok]; a step on a machine that has raised does nothing. *)
(***************************************************************************)
AtomStep(m, a, new) ==
    IF ~m.ok THEN m
    ELSE IF new = "raise" THEN [m EXCEPT !.ok = FALSE]
    ELSE [m EXCEPT !.elec[a] = new]

BondStep(m, b, new) ==
    IF ~m.ok THEN m
    ELSE IF new = "raise" THEN [m EXCEPT !.ok = FALSE]
    ELSE [m EXCEPT !.bondType[b] = new]

DecFree(m, a) == AtomStep(m, a, IF m.ok THEN decreaseFreeElectron(m.elec[a]) ELSE "raise")
IncFree(m, a) == AtomStep(m, a, IF m.ok THEN increaseFreeElectron(m.elec[a], two2) ELSE "raise")
IncOrder(m, b) == BondStep(m, b, IF m.ok THEN increaseOrder(m.bondType[b]) ELSE "raise")
DecOrder(m, b) == BondStep(m, b, IF m.ok THEN decreaseOrder(m.bondType[b]) ELSE "raise")

\* AdjustPath without the two steps on the bonds
AdjustPath_ElectronsOnly(m, p) ==
    IncFree(DecFree(m, p[1]), p[3])

\* "Adjust to (potentially) new resonance isomer"
AdjustPath(m, p) ==
    DecOrder(IncOrder(IncFree(DecFree(m, p[1]), p[3]), {p[1], p[2]}), {p[2], p[3]})

\* "Restore current isomer"
RestorePath(m, p) ==
    IncOrder(DecOrder(DecFree(IncFree(m, p[1]), p[3]), {p[1], p[2]}), {p[2], p[3]})

(***************************************************************************)
(* The Structures the enumerator is run on: every graph of NAtoms atoms    *)
(* with at most MaxBonds bonds, every bond type and every electron state.  *)
(* The enumerator visits atoms and bonds in the graph's iteration order,   *)
(* which the steps below leave open, so the numbering of the atoms carries *)
(* no meaning: each Structure is taken once, numbered in the order of      *)
(* NumberingKey.                                                           *)
(***************************************************************************)
RECURSIVE SumCode(_, _, _)
SumCode(bt, a, S) ==
    IF S = {} THEN 0
    ELSE LET b == CHOOSE x \in S : TRUE
         IN Order2(bt[{a, b}]) + SumCode(bt, a, S \ {b})

StateKey(es) == 2 * Order(es) + (IF es = "2T" THEN 1 ELSE 0)

NumberingKey(el, bt, a) == <<StateKey(el[a]), SumCode(bt, a, getBonds(bt, a))>>

KeyLeq(k, l) == k[1] < l[1] \/ (k[1] = l[1] /\ k[2] <= l[2])

\* the Structures of which at most k atoms carry free electrons
ResInputs(k) ==
    /\ two2 \in {"2S", "2T"}
    /\ elec \in [Atoms -> ElectronStateLabels]
    /\ Cardinality({a \in Atoms : elec[a] # "0"}) <= k
    /\ \A a \in Atoms : a + 1 \in Atoms => StateKey(elec[a]) <= StateKey(elec[a + 1])
    /\ \E E \in SUBSET Pairs :
         /\ Cardinality(E) <= MaxBonds
         /\ bondType \in [E -> BondTypeLabels]
    /\ \A a \in Atoms : a + 1 \in Atoms =>
         KeyLeq(NumberingKey(elec, bondType, a), NumberingKey(elec, bondType, a + 1))
    /\ elec0 = elec
    /\ bondType0 = bondType
    /\ rpc = "idle"
    /\ todo = {}
    /\ paths = {}
    /\ path = NoPath
    /\ isomers = <<>>
    /\ GraphIdle
    /\ CodecIdle
    /\ TypesIdle

ResInit == ResInputs(MaxRadicalAtoms)

\* ResCall without the test of the radical count
ResCall_NoRadicalTest ==
    /\ rpc = "idle"
    /\ elec0' = elec
    /\ bondType0' = bondType
    /\ isomers' = <<>>
    /\ todo' = Atoms
    /\ rpc' = "atoms"
    /\ UNCHANGED <<two2, elec, bondType, paths, path, graphVars, codecVars, typeVars>>

\* the call: "isomers = []", "if self.getRadicalCount() > 0"
ResCall ==
    /\ rpc = "idle"
    /\ elec0' = elec
    /\ bondType0' = bondType
    /\ isomers' = <<>>
    /\ IF getRadicalCount(elec) > 0
          THEN /\ todo' = Atoms
               /\ rpc' = "atoms"
          ELSE /\ todo' = {}
               /\ rpc' = "done"
    /\ UNCHANGED <<two2, elec, bondType, paths, path, graphVars, codecVars, typeVars>>

\* "for atom in self.atoms(): paths = self.findAllDelocalizationPaths(atom)":
\* the next atom, in any order, for which the loop over the paths has a body
\* to run; an atom whose list is empty is passed over with no effect
ResNextAtom ==
    /\ rpc = "atoms"
    /\ \E atom \in todo :
         /\ findAllDelocalizationPaths(elec, bondType, atom) # {}
         /\ todo' = todo \ {atom}
         /\ paths' = findAllDelocalizationPaths(elec, bondType, atom)
         /\ rpc' = "paths"
    /\ UNCHANGED <<two2, elec, bondType, elec0, bondType0, path, isomers, graphVars, codecVars, typeVars>>

\* ResAdjust leaving the path it takes in the list
ResAdjust_PathStays ==
    /\ rpc = "paths"
    /\ \E p \in paths :
         LET m == AdjustPath([elec |-> elec, bondType |-> bondType, ok |-> TRUE], p)
         IN /\ path' = p
            /\ elec' = m.elec
            /\ bondType' = m.bondType
            /\ rpc' = IF m.ok THEN "copy" ELSE "raised"
    /\ UNCHANGED <<two2, elec0, bondType0, todo, paths, isomers, graphVars, codecVars, typeVars>>

\* "for path in paths:", the paths in any order, and the four adjusting steps
ResAdjust ==
    /\ rpc = "paths"
    /\ \E p \in paths :
         LET m == AdjustPath([elec |-> elec, bondType |-> bondType, ok |-> TRUE], p)
         IN /\ path' = p
            /\ paths' = paths \ {p}
            /\ elec' = m.elec
            /\ bondType' = m.bondType
            /\ rpc' = IF m.ok THEN "copy" ELSE "raised"
    /\ UNCHANGED <<two2, elec0, bondType0, todo, isomers, graphVars, codecVars, typeVars>>

\* Structure.isIsomorphic on two copies: some renumbering of the atoms takes
\* the electron states and the bond types of one to those of the other
isIsomorphic(x, y) ==
    \E f \in Permutations(Atoms) :
        /\ \A a \in Atoms : x.elec[a] = y.elec[f[a]]
        /\ DOMAIN y.bondType = {{f[a] : a \in b} : b \in DOMAIN x.bondType}
        /\ \A b \in DOMAIN x.bondType : x.bondType[b] = y.bondType[{f[a] : a \in b}]

\* ResCopyRestore appending the isomer only "if unique"
ResCopyRestore_Unique ==
    /\ rpc = "copy"
    /\ LET isomer == copy(elec, bondType)
           m == RestorePath([elec |-> elec, bondType |-> bondType, ok |-> TRUE], path)
           known == \E i \in 1..Len(isomers) : isIsomorphic(isomers[i], isomer)
       IN /\ elec' = m.elec
          /\ bondType' = m.bondType
          /\ isomers' = IF m.ok /\ ~known THEN Append(isomers, isomer) ELSE isomers
          /\ rpc' = IF ~m.ok THEN "raised"
                    ELSE IF paths = {} THEN "atoms" ELSE "paths"
    /\ UNCHANGED <<two2, elec0, bondType0, todo, paths, path, graphVars, codecVars, typeVars>>

\* "isomer = self.copy()", the four restoring steps, "isomers.append(isomer)"
ResCopyRestore ==
    /\ rpc = "copy"
    /\ LET isomer == copy(elec, bondType)
           m == RestorePath([elec |-> elec, bondType |-> bondType, ok |-> TRUE], path)
       IN /\ elec' = m.elec
          /\ bondType' = m.bondType
          /\ isomers' = IF m.ok THEN Append(isomers, isomer) ELSE isomers
          /\ rpc' = IF ~m.ok THEN "raised"
                    ELSE IF paths = {} THEN "atoms" ELSE "paths"
    /\ UNCHANGED <<two2, elec0, bondType0, todo, paths, path, graphVars, codecVars, typeVars>>

\* "return isomers", once no atom left has a path
ResReturn ==
    /\ rpc = "atoms"
    /\ \A atom \in todo : findAllDelocalizationPaths(elec, bondType, atom) = {}
    /\ todo' = {}
    /\ rpc' = "done"
    /\ UNCHANGED <<two2, elec, bondType, elec0, bondType0, paths, path, isomers, graphVars, codecVars, typeVars>>

ResNext ==
    \/ ResCall
    \/ ResNextAtom
    \/ ResAdjust
    \/ ResCopyRestore
    \/ ResReturn

SpecRes == ResInit /\ [][ResNext]_vars

\* The enumerator on Structures with one more atom that carries free
\* electrons, where a path of one radical atom runs through another
SpecResPair == ResInputs(MaxRadicalAtoms + 1) /\ [][ResNext]_vars

\* The monoradicals: chains and rings of every bond type with one free
\* electron. No step on them applies increaseFreeElectron to an atom in state
\* "1", so its choice of two-electron state is not read and is taken once.
RunsInit ==
    /\ ResInit
    /\ getRadicalCount(elec) = 1
    /\ two2 = "2S"

\* The call runs to its end: the interpreter takes every step of the loops
\* once the step before it is done.
SpecResRuns == RunsInit /\ [][ResNext]_vars /\ WF_vars(ResNext)

(***************************************************************************)
(* Claims about the resonance enumerator.                                  *)
(***************************************************************************)
\* C1: when getAdjacentResonanceIsomers has returned, every atom's electron
\* state and every bond's type are what they were when it was called.
C1_InputRestored ==
    rpc = "done" => (elec = elec0 /\ bondType = bondType0)

\* C2: a Structure whose radical count is zero goes from the call straight
\* to the return, with the empty list, whatever its bond types are.
C2_NoRadicalNoIsomers ==
    (rpc # "idle" /\ getRadicalCount(elec0) = 0) => (rpc = "done" /\ isomers = <<>>)

\* C2 witness: the call has returned on a radical-free Structure that has a
\* double bond next to another bond (a path, were there a radical).
C2_Witness ==
    /\ rpc = "done"
    /\ getRadicalCount(elec0) = 0
    /\ isomers = <<>>
    /\ \E a \in Atoms, b \in Atoms, c \in Atoms :
         /\ a # c
         /\ {a, b} \in DOMAIN bondType /\ {b, c} \in DOMAIN bondType
         /\ bondType[{a, b}] = "S" /\ bondType[{b, c}] = "D"

\* The allyl chain C1=C2-C3 with one free electron on C3: atom 1 is C1,
\* atom 2 is C2 and atom 3 is C3.
AllylInput ==
    /\ elec0 = <<"0", "0", "1">>
    /\ bondType0 = ({1, 2} :> "D") @@ ({2, 3} :> "S")

\* C11: on the chain C1=C2-C3 with one free electron on C3,
\* findAllDelocalizationPaths(C3) is exactly the one path (C3, C2, C1), the
\* other atoms have none, the call does not raise, and it returns exactly
\* one isomer: C1 has the free electron, C3 has none, the bond C1-C2 is single
\* and the bond C2-C3 is double.
C11_AllylShift ==
    (rpc # "idle" /\ AllylInput) =>
        /\ findAllDelocalizationPaths(elec0, bondType0, 3) = {<<3, 2, 1>>}
        /\ findAllDelocalizationPaths(elec0, bondType0, 1) = {}
        /\ findAllDelocalizationPaths(elec0, bondType0, 2) = {}
        /\ rpc = "paths" => paths = {<<3, 2, 1>>}
        /\ rpc # "raised"
        /\ rpc = "done" =>
              isomers = << [elec |-> <<"1", "0", "0">>,
                            bondType |-> ({1, 2} :> "S") @@ ({2, 3} :> "D")] >>

\* C11 witness: the call has returned its one isomer on the allyl chain.
C11_Witness ==
    /\ rpc = "done"
    /\ AllylInput
    /\ Len(isomers) = 1
    /\ isomers[1].elec[1] = "1"

\* The neighbours of atom whose bond to it can increase, and can decrease
Increasable(bt, atom) == {atom2 \in getBonds(bt, atom) : canIncreaseOrder(bt[{atom, atom2}])}
Decreasable(bt, atom) == {atom2 \in getBonds(bt, atom) : canDecreaseOrder(bt[{atom, atom2}])}

\* The paths of atom1 as C12 words them: none without a free electron; else
\* one (atom1, atom2, atom3) for each neighbour atom2 whose bond to atom1 can
\* increase and each neighbour atom3 of atom2, other than atom1, whose bond
\* to atom2 can decrease.
PathsFrom(el, bt, atom1) ==
    IF Order(el[atom1]) <= 0 THEN {}
    ELSE UNION {{<<atom1, atom2, atom3>> :
                    atom3 \in Decreasable(bt, atom2) \ {atom1}} :
                 atom2 \in Increasable(bt, atom1)}

\* The chain C-C-C of single bonds with the free electron on the middle atom
MiddleRadical(el, bt) ==
    /\ DOMAIN bt = {{1, 3}, {2, 3}}
    /\ \A b \in DOMAIN bt : bt[b] = "S"
    /\ el = <<"0", "0", "1">>

\* C12: in every Structure the enumerator is called on,
\* findAllDelocalizationPaths returns for every atom the empty list when the
\* atom has no free electron and otherwise exactly the tuples of PathsFrom, no
\* other; the list handed to the loop over the paths holds only such tuples;
\* and the middle atom of C-C(radical)-C has no path.
C12_ExactPaths ==
    /\ rpc = "idle" =>
          \A atom \in Atoms :
            findAllDelocalizationPaths(elec, bondType, atom) = PathsFrom(elec, bondType, atom)
    /\ rpc = "paths" =>
          \E atom \in Atoms \ todo : paths \subseteq PathsFrom(elec, bondType, atom)
    /\ MiddleRadical(elec, bondType) =>
          findAllDelocalizationPaths(elec, bondType, 3) = {}

\* C12 witness: one atom with a free electron has two paths, through two
\* different neighbours.
C12_Witness ==
    /\ rpc = "paths"
    /\ \E p \in paths, q \in paths : p[1] = q[1] /\ p[2] # q[2]

\* The number of paths of the atoms of S in the Structure (el, bt)
RECURSIVE CountPaths(_, _, _)
CountPaths(el, bt, S) ==
    IF S = {} THEN 0
    ELSE LET a == CHOOSE x \in S : TRUE
         IN Cardinality(findAllDelocalizationPaths(el, bt, a)) + CountPaths(el, bt, S \ {a})

SameCounts(el, bt, el2, bt2) ==
    /\ bt2 = bt
    /\ \A a \in Atoms : Order(el2[a]) = Order(el[a])

\* (el2, bt2) is (el, bt) after the shift of path p and nothing else: atom1
\* has one free electron fewer, atom3 one more, bond12 is one order higher,
\* bond23 one order lower (Order2 is twice the order), every other atom has
\* its free-electron count and every other bond its type
ShiftedBy(el, bt, p, el2, bt2) ==
    /\ p[1] # p[3]
    /\ DOMAIN bt2 = DOMAIN bt
    /\ {p[1], p[2]} \in DOMAIN bt /\ {p[2], p[3]} \in DOMAIN bt
    /\ Order(el2[p[1]]) = Order(el[p[1]]) - 1
    /\ Order(el2[p[3]]) = Order(el[p[3]]) + 1
    /\ Order2(bt2[{p[1], p[2]}]) = Order2(bt[{p[1], p[2]}]) + 2
    /\ Order2(bt2[{p[2], p[3]}]) = Order2(bt[{p[2], p[3]}]) - 2
    /\ \A a \in Atoms \ {p[1], p[3]} : Order(el2[a]) = Order(el[a])
    /\ \A b \in DOMAIN bt \ {{p[1], p[2]}, {p[2], p[3]}} : bt2[b] = bt[b]

\* C14: one path at a time. Whenever a path is about to be taken the
\* Structure has the free-electron counts and bond types of the input, and
\* every path still to be taken meets the guards of the adjusting steps (a
\* free electron on atom1, bond12 can increase, bond23 can decrease, the two
\* bonds distinct); at the copy the Structure is the input shifted by that one
\* path, and it meets the guards of the restoring steps (a free electron on
\* atom3, bond12 can decrease, bond23 can increase); and every isomer of the
\* returned list is the input shifted by exactly one of its paths.
C14_OnePathAtATime ==
    /\ rpc \in {"atoms", "paths", "done"} =>
          SameCounts(elec0, bondType0, elec, bondType)
    /\ rpc = "paths" =>
          \A p \in paths :
            /\ Order(elec[p[1]]) > 0
            /\ canIncreaseOrder(bondType[{p[1], p[2]}])
            /\ canDecreaseOrder(bondType[{p[2], p[3]}])
            /\ {p[1], p[2]} # {p[2], p[3]}
    /\ rpc = "copy" =>
          /\ ShiftedBy(elec0, bondType0, path, elec, bondType)
          /\ Order(elec[path[3]]) > 0
          /\ canDecreaseOrder(bondType[{path[1], path[2]}])
          /\ canIncreaseOrder(bondType[{path[2], path[3]}])
    /\ rpc = "done" =>
          \A i \in 1..Len(isomers) :
            \E a \in Atoms :
              \E p \in findAllDelocalizationPaths(elec0, bondType0, a) :
                ShiftedBy(elec0, bondType0, p, isomers[i].elec, isomers[i].bondType)

\* C14, as stated: at the moment of each copy the Structure differs from the
\* input by the shift of the one path and in nothing else, so every atom other
\* than atom1 and atom3 is in the electron state it had at the call.
C14_ExactlyOneShift ==
    rpc = "copy" =>
        /\ ShiftedBy(elec0, bondType0, path, elec, bondType)
        /\ \A a \in Atoms \ {path[1], path[3]} : elec[a] = elec0[a]

\* C14 witness: the second path of an atom is at its copy, after the first
\* was copied and restored.
C14_Witness ==
    /\ rpc = "copy"
    /\ Len(isomers) = 1
    /\ isomers[1] # copy(elec, bondType)
    /\ ShiftedBy(elec0, bondType0, path, elec, bondType)

\* The number of bonds at an atom
Degree(bt, atom) == Cardinality(getBonds(bt, atom))

RECURSIVE SumOthers(_, _)
SumOthers(bt, S) ==
    IF S = {} THEN 0
    ELSE LET a == CHOOSE x \in S : TRUE
         IN (Degree(bt, a) - 1) + SumOthers(bt, S \ {a})

\* C19: the enumeration ends on every Structure, cyclic ones included: a call
\* once made returns or raises; the paths of an atom are at most the sum over
\* its neighbours atom2 of degree(atom2) - 1, which is at most the product of
\* its degree and the largest degree; and the rounds of shift, copy and
\* restore, each of which appends one isomer, are never more than the paths of
\* the input and exactly as many when the call returns.
C19_Terminates ==
    /\ [](rpc # "idle" => <>(rpc \in {"done", "raised"}))
    /\ [](rpc = "idle" =>
            \A atom \in Atoms :
              /\ Cardinality(findAllDelocalizationPaths(elec, bondType, atom))
                    <= SumOthers(bondType, getBonds(bondType, atom))
              /\ \A d \in 0..NAtoms :
                    (\A a \in Atoms : Degree(bondType, a) <= d) =>
                        SumOthers(bondType, getBonds(bondType, atom))
                            <= Degree(bondType, atom) * d)
    /\ [](rpc \notin {"idle", "raised"} =>
            /\ Len(isomers) + Cardinality(paths) <= CountPaths(elec0, bondType0, Atoms)
            /\ rpc = "done" => Len(isomers) = CountPaths(elec0, bondType0, Atoms))

\* C19 witness: the call has returned on a ring of three atoms, after one
\* round for each of its paths.
C19_Witness ==
    /\ rpc = "done"
    /\ DOMAIN bondType0 = Pairs
    /\ Len(isomers) = CountPaths(elec0, bondType0, Atoms)
    /\ Len(isomers) >= 2

\* Twice the sum of the bond orders of the bonds of S
RECURSIVE SumOrder2(_, _)
SumOrder2(bt, S) ==
    IF S = {} THEN 0
    ELSE LET b == CHOOSE x \in S : TRUE
         IN Order2(bt[b]) + SumOrder2(bt, S \ {b})

\* C20: every isomer returned has the atoms of the input, bonds between the
\* same pairs of atoms and so as many of them, the same total radical count
\* and, when every bond of the input is single, double or triple, the same sum
\* of bond orders.
C20_Conserved ==
    rpc = "done" =>
        \A i \in 1..Len(isomers) :
            /\ DOMAIN isomers[i].elec = DOMAIN elec0
            /\ DOMAIN isomers[i].bondType = DOMAIN bondType0
            /\ getRadicalCount(isomers[i].elec) = getRadicalCount(elec0)
            /\ (\A b \in DOMAIN bondType0 : bondType0[b] \in {"S", "D", "T"}) =>
                  SumOrder2(isomers[i].bondType, DOMAIN bondType0)
                      = SumOrder2(bondType0, DOMAIN bondType0)

\* C20 witness: an isomer has been returned for a Structure of single, double
\* and triple bonds with two free electrons.
C20_Witness ==
    /\ rpc = "done"
    /\ Len(isomers) >= 1
    /\ getRadicalCount(elec0) = 2
    /\ \A b \in DOMAIN bondType0 : bondType0[b] \in {"S", "D", "T"}
    /\ isomers[1].bondType # bondType0

(***************************************************************************)
(* The graph wrapper: addAtom, addBond, removeAtom, removeBond, copy.      *)
(* graph.Graph is described by the specification as a vertex set with      *)
(* edges keyed by the unordered pair of their endpoints; a graph is        *)
(* [V, E], and an operation returns [ok, g], ok = FALSE when it raises.    *)
(***************************************************************************)
AtomObjs == 1..GAtoms

BondObjs == 1..GBonds

GStates == {"0", "1"}

GTypes == {"S", "D"}

EmptyGraph == [V |-> {}, E |-> <<>>]

Restrict(f, D) == [x \in D |-> f[x]]

\* Graph.vertices, Graph.edges
vertices(g) == g.V
edges(g) == {g.E[p] : p \in DOMAIN g.E}

\* Graph.addVertex: fails if the vertex is already present
addVertex(g, v) ==
    IF v \in g.V THEN [ok |-> FALSE, g |-> g]
    ELSE [ok |-> TRUE, g |-> [g EXCEPT !.V = @ \cup {v}]]

\* Graph.addEdge: fails if an endpoint is not a vertex
addEdge(g, v1, v2, e) ==
    IF v1 \notin g.V \/ v2 \notin g.V THEN [ok |-> FALSE, g |-> g]
    ELSE [ok |-> TRUE, g |-> [g EXCEPT !.E = ({v1, v2} :> e) @@ @]]

\* Graph.removeVertex: the vertex and every edge incident to it
removeVertex(g, v) ==
    IF v \notin g.V THEN [ok |-> FALSE, g |-> g]
    ELSE [ok |-> TRUE,
          g |-> [V |-> g.V \ {v},
                 E |-> Restrict(g.E, {p \in DOMAIN g.E : v \notin p})]]

\* Graph.removeEdge: the edge only
removeEdge(g, v1, v2) ==
    IF {v1, v2} \notin DOMAIN g.E THEN [ok |-> FALSE, g |-> g]
    ELSE [ok |-> TRUE, g |-> [g EXCEPT !.E = Restrict(@, DOMAIN @ \ {{v1, v2}})]]

\* Structure.addAtom
addAtom(g, atom) == addVertex(g, atom)

\* addBond that hands the first atom to the graph twice
addBond_FirstAtomTwice(g, ba, bond) == addEdge(g, ba[bond][1], ba[bond][1], bond)

\* Structure.addBond: "atom1, atom2 = bond.atoms"
addBond(g, ba, bond) == addEdge(g, ba[bond][1], ba[bond][2], bond)

\* Structure.removeAtom
removeAtom(g, atom) == removeVertex(g, atom)

\* Structure.removeBond: "atom1, atom2 = bond.atoms"
removeBond(g, ba, bond) == removeEdge(g, ba[bond][1], ba[bond][2])

\* Structure.initialize: a new graph, addAtom for each atom, then addBond
\* for each bond; ok = FALSE as soon as one of them raises
RECURSIVE AddAtoms(_, _)
AddAtoms(r, atoms) ==
    IF atoms = {} \/ ~r.ok THEN r
    ELSE LET a == CHOOSE x \in atoms : TRUE
         IN AddAtoms(addAtom(r.g, a), atoms \ {a})

RECURSIVE AddBonds(_, _, _)
AddBonds(r, ba, bonds) ==
    IF bonds = {} \/ ~r.ok THEN r
    ELSE LET b == CHOOSE x \in bonds : \A y \in bonds : x <= y
         IN AddBonds(addBond(r.g, ba, b), ba, bonds \ {b})

initialize(atoms, ba, bonds) ==
    AddBonds(AddAtoms([ok |-> TRUE, g |-> EmptyGraph], atoms), ba, bonds)

\* the objects copy() creates: Atom.copy() and Bond.copy() return new objects
NewAtom(atom) == atom + GAtoms
NewBond(bond) == bond + GBonds

\* copyGraph that appends the Structure's own atoms instead of copies
copyGraph_SameAtoms(g, st, ba, bt) ==
    LET bonds == edges(g)
        newBonds == {NewBond(b) : b \in bonds}
        ba2 == [nb \in newBonds |-> ba[nb - GBonds]]
        r == initialize(g.V, ba2 @@ ba, newBonds)
    IN [ok |-> r.ok, g |-> r.g,
        clone |-> [a \in g.V |-> a],
        state |-> st,
        atoms |-> ba2 @@ ba,
        type |-> [nb \in newBonds |-> bt[nb - GBonds]] @@ bt]

\* Structure.copy: a copy of every atom, a copy of every bond with its atoms
\* set to the copies at the indices of the bond's atoms, Structure(atoms,
\* bonds). Returns the new graph, clone (the copy of each atom: atoms[i] is
\* the copy of self.atoms()[i]) and the fields of the old and new objects.
copyGraph(g, st, ba, bt) ==
    LET atoms == {NewAtom(a) : a \in g.V}
        bonds == edges(g)
        newBonds == {NewBond(b) : b \in bonds}
        indexOk == \A b \in bonds : ba[b][1] \in g.V /\ ba[b][2] \in g.V
        ba2 == [nb \in newBonds |->
                  <<NewAtom(ba[nb - GBonds][1]), NewAtom(ba[nb - GBonds][2])>>]
        r == initialize(atoms, ba2 @@ ba, newBonds)
    IN [ok |-> indexOk /\ r.ok, g |-> r.g,
        clone |-> [a \in g.V |-> NewAtom(a)],
        state |-> [na \in atoms |-> st[na - GAtoms]] @@ st,
        atoms |-> ba2 @@ ba,
        type |-> [nb \in newBonds |-> bt[nb - GBonds]] @@ bt]

ThisGraph == [V |-> gV, E |-> gE]

\* the callers' objects: GAtoms atoms, and GBonds bonds made by
\* chem.Bond([atom1, atom2], 'S') for any two of the atoms; two runs that
\* differ only in which bond object is called 1, 2, ... are the same run
BondEnds == {e \in AtomObjs \X AtomObjs : e[1] # e[2]}

EndsCode(e) == e[1] * (GAtoms + 1) + e[2]

GraphInit ==
    /\ gV = {}
    /\ gE = <<>>
    /\ atomState = [a \in AtomObjs |-> "0"]
    /\ bondAtoms \in [BondObjs -> BondEnds]
    /\ \A b \in BondObjs : b + 1 \in BondObjs =>
         EndsCode(bondAtoms[b]) <= EndsCode(bondAtoms[b + 1])
    /\ bondTypeOf = [b \in BondObjs |-> "S"]
    /\ gCopy = [made |-> FALSE, V |-> {}, E |-> <<>>, clone |-> <<>>]
    /\ gSnap = <<>>
    /\ gLast = "none"
    /\ ResIdle
    /\ CodecIdle
    /\ TypesIdle

\* gLast names the last operation where the run keeps track of it
Last(name) == IF gLast = "untracked" THEN gLast ELSE name

\* an operation of the Structure; one that raises leaves r.g as it was
GraphOp(name, r) ==
    /\ gV' = r.g.V
    /\ gE' = r.g.E
    /\ gLast' = Last(IF r.ok THEN name ELSE name \o " raised")
    /\ UNCHANGED <<atomState, bondAtoms, bondTypeOf, gCopy, gSnap, resVars, codecVars, typeVars>>

AddAtom == \E atom \in AtomObjs : GraphOp("addAtom", addAtom(ThisGraph, atom))

AddBond ==
    \E bond \in DOMAIN bondAtoms \cap BondObjs :
        GraphOp("addBond", addBond(ThisGraph, bondAtoms, bond))

RemoveAtom == \E atom \in AtomObjs : GraphOp("removeAtom", removeAtom(ThisGraph, atom))

RemoveBond ==
    \E bond \in DOMAIN bondAtoms \cap BondObjs :
        GraphOp("removeBond", removeBond(ThisGraph, bondAtoms, bond))

\* copy(), and what the Structure and its objects were when it was called
Copy ==
    LET c == copyGraph(ThisGraph, atomState, bondAtoms, bondTypeOf)
    IN /\ ~gCopy.made
       /\ c.ok
       /\ gCopy' = [made |-> TRUE, V |-> c.g.V, E |-> c.g.E, clone |-> c.clone]
       /\ atomState' = c.state
       /\ bondAtoms' = c.atoms
       /\ bondTypeOf' = c.type
       /\ gSnap' = [V |-> gV, E |-> gE,
                    state |-> Restrict(atomState, gV),
                    atoms |-> Restrict(bondAtoms, edges(ThisGraph)),
                    type |-> Restrict(bondTypeOf, edges(ThisGraph))]
       /\ gLast' = Last("copy")
       /\ UNCHANGED <<gV, gE, resVars, codecVars, typeVars>>

\* the fields of the Structure's objects that differ from those copied
Changed(st, bt) ==
    Cardinality({a \in gV : st[a] # gSnap.state[a]}) +
    Cardinality({b \in edges(ThisGraph) : bt[b] # gSnap.type[b]})

\* a later change of the electron state of an atom of the Structure
SetElectronState ==
    /\ gCopy.made
    /\ \E atom \in gV, es \in GStates :
         /\ es # atomState[atom]
         /\ atomState' = [atomState EXCEPT ![atom] = es]
    /\ Changed(atomState', bondTypeOf) <= MaxChanges
    /\ gLast' = Last("setElectronState")
    /\ UNCHANGED <<gV, gE, bondAtoms, bondTypeOf, gCopy, gSnap, resVars, codecVars, typeVars>>

\* a later change of the bond type of a bond of the Structure
SetBondType ==
    /\ gCopy.made
    /\ \E bond \in edges(ThisGraph), t \in GTypes :
         /\ t # bondTypeOf[bond]
         /\ bondTypeOf' = [bondTypeOf EXCEPT ![bond] = t]
    /\ Changed(atomState, bondTypeOf') <= MaxChanges
    /\ gLast' = Last("setBondType")
    /\ UNCHANGED <<gV, gE, atomState, bondAtoms, gCopy, gSnap, resVars, codecVars, typeVars>>

\* the graph operations, in any order, on the objects the callers create
GraphNext ==
    \/ AddAtom
    \/ AddBond
    \/ RemoveAtom
    \/ RemoveBond

SpecGraph == GraphInit /\ [][GraphNext]_vars

\* C9: both endpoints of every bond of the Structure are atoms of the
\* Structure, after any sequence of addAtom, addBond, removeAtom and
\* removeBond; an addBond that raises leaves the Structure as it was, an
\* addBond that succeeds added a bond whose endpoints are vertices,
\* removeAtom leaves no bond at an atom that is gone, and removeBond leaves
\* the atoms in place.
C9_EndpointsPresent ==
    /\ [](\A p \in DOMAIN gE :
            bondAtoms[gE[p]][1] \in gV /\ bondAtoms[gE[p]][2] \in gV)
    /\ [][(gLast' = "addBond raised") => (gV' = gV /\ gE' = gE)]_vars
    /\ [][(gLast' = "addBond") =>
            (\E b \in BondObjs :
               /\ bondAtoms[b][1] \in gV /\ bondAtoms[b][2] \in gV
               /\ {bondAtoms[b][1], bondAtoms[b][2]} \in DOMAIN gE'
               /\ gE'[{bondAtoms[b][1], bondAtoms[b][2]}] = b)]_vars
    /\ [][(gLast' = "removeAtom") =>
            (/\ Cardinality(gV') = Cardinality(gV) - 1
             /\ \A p \in DOMAIN gE' : p \subseteq gV')]_vars
    /\ [][(gLast' = "removeBond") =>
            (/\ gV' = gV
             /\ Cardinality(DOMAIN gE') = Cardinality(DOMAIN gE) - 1)]_vars

\* C9 witness: an atom was removed from a Structure that still holds a bond
\* between the two atoms that are left.
C9_Witness ==
    /\ gLast = "removeAtom"
    /\ Cardinality(gV) = 2
    /\ DOMAIN gE # {}

(***************************************************************************)
(* copy(): a Structure made by Structure(atoms, bonds) from any atoms and   *)
(* any bonds between them is copied, and the fields of its objects change. *)
(***************************************************************************)
MinOf(p) == CHOOSE x \in p : \A y \in p : x <= y
MaxOf(p) == CHOOSE x \in p : \A y \in p : y <= x

\* the bonds handed to the constructor are numbered in the order of their pairs
PairBefore(q, p) ==
    MinOf(q) < MinOf(p) \/ (MinOf(q) = MinOf(p) /\ MaxOf(q) < MaxOf(p))

PairNumber(E, p) == Cardinality({q \in E : PairBefore(q, p)}) + 1

CopyInit ==
    /\ \E V \in SUBSET AtomObjs :
         /\ atomState \in [AtomObjs -> GStates]
         /\ \A a \in AtomObjs \ V : atomState[a] = "0"
         /\ \E E \in SUBSET {p \in SUBSET V : Cardinality(p) = 2} :
              /\ Cardinality(E) <= GBonds
              /\ \E flip \in [E -> BOOLEAN] :
                   bondAtoms = [b \in 1..Cardinality(E) |->
                                  LET p == CHOOSE q \in E : PairNumber(E, q) = b
                                  IN IF flip[p] THEN <<MaxOf(p), MinOf(p)>>
                                     ELSE <<MinOf(p), MaxOf(p)>>]
              /\ bondTypeOf \in [1..Cardinality(E) -> GTypes]
              /\ LET r == initialize(V, bondAtoms, 1..Cardinality(E))
                 IN /\ r.ok
                    /\ gV = r.g.V
                    /\ gE = r.g.E
    /\ gCopy = [made |-> FALSE, V |-> {}, E |-> <<>>, clone |-> <<>>]
    /\ gSnap = <<>>
    /\ gLast = "untracked"
    /\ ResIdle
    /\ CodecIdle
    /\ TypesIdle

CopyNext ==
    \/ Copy
    \/ SetElectronState
    \/ SetBondType

SpecCopy == CopyInit /\ [][CopyNext]_vars

\* C10: the Structure copy() returned has one new atom for each atom and one
\* new bond for each bond the original had; the copy of a bond connects the
\* copies of its (first, second) atoms; no atom or bond object is shared;
\* and the copy's electron states and bond types stay what the original's
\* were at the call, whatever is changed in the original afterwards.
C10_CopyIsDeep ==
    gCopy.made =>
      LET f == gCopy.clone
      IN /\ DOMAIN f = gSnap.V
         /\ {f[a] : a \in gSnap.V} = gCopy.V
         /\ Cardinality(gCopy.V) = Cardinality(gSnap.V)
         /\ gCopy.V \cap gSnap.V = {}
         /\ \A a \in gSnap.V : atomState[f[a]] = gSnap.state[a]
         /\ DOMAIN gCopy.E = {{f[a] : a \in p} : p \in DOMAIN gSnap.E}
         /\ \A p \in DOMAIN gSnap.E :
              LET old == gSnap.E[p]
                  new == gCopy.E[{f[a] : a \in p}]
              IN /\ new \notin {gSnap.E[q] : q \in DOMAIN gSnap.E}
                 /\ bondAtoms[new] = <<f[gSnap.atoms[old][1]], f[gSnap.atoms[old][2]]>>
                 /\ bondTypeOf[new] = gSnap.type[old]

\* C10 witness: a Structure with two bonds was copied, and then an electron
\* state of the original was changed.
C10_Witness ==
    /\ gCopy.made
    /\ Cardinality(DOMAIN gSnap.E) = 2
    /\ \E a \in gV : atomState[a] # gSnap.state[a]

(***************************************************************************)
(* The adjacency-list codec: fromAdjacencyList and toAdjacencyList.        *)
(* A text is a sequence of characters, each a one-character string; the    *)
(* string methods the codec calls are computed character by character.     *)
(***************************************************************************)
NL == "\n"

DigitChars == <<"0", "1", "2", "3", "4", "5", "6", "7", "8", "9">>

IsDigit(c) == \E d \in 1..10 : DigitChars[d] = c

DigitValue(c) == (CHOOSE d \in 1..10 : DigitChars[d] = c) - 1

\* s[1:-1]
Inner(s) == SubSeq(s, 2, Len(s) - 1)

\* the position of the first c in s, 0 if there is none
Find(s, c) ==
    IF \E i \in 1..Len(s) : s[i] = c
    THEN CHOOSE i \in 1..Len(s) : s[i] = c /\ \A j \in 1..(i - 1) : s[j] # c
    ELSE 0

\* s.split(c): the pieces between the occurrences of c, empty ones kept
RECURSIVE splitOn(_, _)
splitOn(s, c) ==
    LET i == Find(s, c)
    IN IF i = 0 THEN <<s>>
       ELSE <<SubSeq(s, 1, i - 1)>> \o splitOn(SubSeq(s, i + 1, Len(s)), c)

\* adjlist.splitlines(): the lines, without a last empty piece
splitlines(s) ==
    LET pieces == splitOn(s, NL)
    IN IF pieces[Len(pieces)] = <<>> THEN SubSeq(pieces, 1, Len(pieces) - 1)
       ELSE pieces

\* line.split(): the pieces between runs of blanks
split(s) == SelectSeq(splitOn(s, " "), LAMBDA piece : piece # <<>>)

\* s.strip(c)
RECURSIVE strip(_, _)
strip(s, c) ==
    IF s = <<>> THEN s
    ELSE IF s[1] = c THEN strip(Tail(s), c)
    ELSE IF s[Len(s)] = c THEN strip(SubSeq(s, 1, Len(s) - 1), c)
    ELSE s

\* s.partition(c): what is before the first c, and what is after it
partition(s, c) ==
    LET i == Find(s, c)
    IN IF i = 0 THEN [head |-> s, tail |-> <<>>]
       ELSE [head |-> SubSeq(s, 1, i - 1), tail |-> SubSeq(s, i + 1, Len(s))]

\* int(s) raises unless s is a non-empty run of digits (the texts of the
\* model hold no sign and no blank inside a token)
intOk(s) == s # <<>> /\ \A i \in 1..Len(s) : IsDigit(s[i])

RECURSIVE int(_)
int(s) ==
    IF Len(s) = 1 THEN DigitValue(s[1])
    ELSE 10 * int(SubSeq(s, 1, Len(s) - 1)) + DigitValue(s[Len(s)])

\* str(n) for n >= 0
RECURSIVE str(_)
str(n) ==
    IF n < 10 THEN <<DigitChars[n + 1]>>
    ELSE str(n \div 10) \o <<DigitChars[(n % 10) + 1]>>

\* s.upper(), for the letters the electron state codes are written with
UpperChar(c) ==
    CASE c = "s" -> "S"
      [] c = "t" -> "T"
      [] OTHER -> c

upper(s) == [i \in 1..Len(s) |-> UpperChar(s[i])]

\* "{a,b,c}" is read as the list of a, b, c and anything else as a list of
\* itself
candidates(token) ==
    IF token[1] = "{" THEN splitOn(Inner(token), ",") ELSE <<token>>

\* the keys of chem.py's tables of atom types, electron states and bond
\* types, as they are written in a text
atomTypeKeys ==
    {<<"R">>, <<"H">>, <<"C">>, <<"O">>, <<"C", "s">>, <<"C", "d">>,
     <<"C", "d", "s">>, <<"C", "d", "d">>, <<"C", "t">>, <<"C", "O">>,
     <<"C", "b">>, <<"C", "b", "f">>, <<"O", "s">>, <<"O", "d">>}

electronStateKeys == {<<"0">>, <<"1">>, <<"2", "S">>, <<"2", "T">>}

bondTypeKeys == {<<"S">>, <<"D">>, <<"T">>, <<"B">>}

AllIn(list, keys) == \A i \in 1..Len(list) : list[i] \in keys

\* chem.Atom(atomType, electronState, 0, label): each code is looked up in
\* its table, which raises for a code the table does not hold. A field
\* holds the candidates in the order given; it is a list to the codec when
\* it holds more than one, a list of one being stored as the one value.
Atom(atomType, electronState, label) ==
    [ok |-> AllIn(atomType, atomTypeKeys) /\ AllIn(electronState, electronStateKeys),
     atom |-> [label |-> label, atomType |-> atomType,
               electronState |-> electronState]]

\* chem.Bond(atoms, bondType), in the same way
Bond(atoms, btype) ==
    [ok |-> AllIn(btype, bondTypeKeys),
     bond |-> [atoms |-> atoms, bondType |-> btype]]

IsList(field) == Len(field) > 1

\* what the parser has built so far; ok = FALSE once a statement of the
\* try block has raised
NewParse ==
    [ok |-> TRUE, atoms |-> <<>>, bonds |-> <<>>, atomdict |-> <<>>,
     bonddict |-> <<>>]

Raised(acc) == [acc EXCEPT !.ok = FALSE]

\* readBond that makes the Bond of the atom of the line with itself
readBond_SameAtomTwice(acc, aid, datum0) ==
    LET datum == strip(datum0, ",")
        parts == partition(Inner(datum), ",")
    IN IF ~intOk(parts.head) \/ parts.tail = <<>> THEN Raised(acc)
       ELSE LET aid2 == int(parts.head)
                btype == candidates(parts.tail)
                made == Bond(<<acc.atomdict[aid], acc.atomdict[aid]>>, btype)
                entry == [acc EXCEPT !.bonddict[aid] = (aid2 :> btype) @@ @]
            IN IF aid2 \notin DOMAIN acc.atomdict THEN entry
               ELSE IF ~made.ok THEN Raised(acc)
               ELSE [entry EXCEPT !.bonds = Append(@, made.bond)]

\* one bond descriptor of the line of atom aid
readBond(acc, aid, datum0) ==
    LET datum == strip(datum0, ",")
        parts == partition(Inner(datum), ",")
    IN IF ~intOk(parts.head) \/ parts.tail = <<>> THEN Raised(acc)
       ELSE LET aid2 == int(parts.head)
                btype == candidates(parts.tail)
                made == Bond(<<acc.atomdict[aid], acc.atomdict[aid2]>>, btype)
                entry == [acc EXCEPT !.bonddict[aid] = (aid2 :> btype) @@ @]
            IN IF aid2 \notin DOMAIN acc.atomdict THEN entry
               ELSE IF ~made.ok THEN Raised(acc)
               ELSE [entry EXCEPT !.bonds = Append(@, made.bond)]

RECURSIVE readBonds(_, _, _)
readBonds(acc, aid, data) ==
    IF data = <<>> \/ ~acc.ok THEN acc
    ELSE readBonds(readBond(acc, aid, Head(data)), aid, Tail(data))

\* one line after the first: blank, or an atom and its bond descriptors
readLine(acc, line) ==
    LET data == split(line)
        idToken == strip(data[1], ".")
        starred == data[2][1] = "*"
        center == IF starred THEN data[2] ELSE <<>>
        index == IF starred THEN 3 ELSE 2
    IN IF data = <<>> THEN acc
       ELSE IF ~intOk(idToken) \/ Len(data) < 2 THEN Raised(acc)
       ELSE IF Len(data) < index + 1 THEN Raised(acc)
       ELSE LET aid == int(idToken)
                elements == candidates(data[index])
                elecState == candidates(upper(data[index + 1]))
                made == Atom(elements, elecState, center)
                n == Len(acc.atoms) + 1
                entry == [acc EXCEPT !.atoms = Append(@, made.atom),
                                     !.atomdict = (aid :> n) @@ @,
                                     !.bonddict = (aid :> <<>>) @@ @]
            IN IF ~made.ok THEN Raised(acc)
               ELSE readBonds(entry, aid, SubSeq(data, index + 2, Len(data)))

RECURSIVE readLines(_, _)
readLines(acc, lines) ==
    IF lines = <<>> \/ ~acc.ok THEN acc
    ELSE readLines(readLine(acc, Head(lines)), Tail(lines))

\* the consistency check without the comparison of the bond types
Mirrored_NoTypeTest(bonddict) ==
    \A atom1 \in DOMAIN bonddict : \A atom2 \in DOMAIN bonddict[atom1] :
        /\ atom2 \in DOMAIN bonddict
        /\ atom1 \in DOMAIN bonddict[atom2]

\* "Check consistency using bonddict"
Mirrored(bonddict) ==
    \A atom1 \in DOMAIN bonddict : \A atom2 \in DOMAIN bonddict[atom1] :
        /\ atom2 \in DOMAIN bonddict
        /\ atom1 \in DOMAIN bonddict[atom2]
        /\ bonddict[atom1][atom2] = bonddict[atom2][atom1]

\* fromAdjacencyList that rebuilds the graph before the consistency check
fromAdjacencyList_InitializeFirst(st, text) ==
    LET lines == splitlines(text)
        label == lines[1]
        acc == readLines(NewParse, Tail(lines))
        atoms == 1..Len(acc.atoms)
        bonds == 1..Len(acc.bonds)
        r == initialize(atoms, [b \in bonds |-> acc.bonds[b].atoms], bonds)
        built == [atom |-> acc.atoms, bond |-> acc.bonds, g |-> r.g]
    IN IF lines = <<>>
       THEN [kind |-> "UnboundLocalError", label |-> <<>>, structure |-> st]
       ELSE IF ~acc.ok
       THEN [kind |-> "InvalidAdjacencyListException", label |-> label,
             structure |-> st]
       ELSE IF ~Mirrored(acc.bonddict)
       THEN [kind |-> "InvalidAdjacencyListException", label |-> label,
             structure |-> built]
       ELSE [kind |-> IF r.ok THEN "parsed" ELSE "initialize raised",
             label |-> <<>>, structure |-> built]

\* Structure.fromAdjacencyList(adjlist) on the Structure st: the kind of
\* its outcome, the label of the exception and the Structure afterwards.
\* With no line at all "label = lines[0]" raises before label is bound, and
\* the handler's "raise InvalidAdjacencyListException(label)" then raises
\* UnboundLocalError itself.
fromAdjacencyList(st, text) ==
    LET lines == splitlines(text)
        label == lines[1]
        acc == readLines(NewParse, Tail(lines))
        atoms == 1..Len(acc.atoms)
        bonds == 1..Len(acc.bonds)
        r == initialize(atoms, [b \in bonds |-> acc.bonds[b].atoms], bonds)
    IN IF lines = <<>>
       THEN [kind |-> "UnboundLocalError", label |-> <<>>, structure |-> st]
       ELSE IF ~acc.ok \/ ~Mirrored(acc.bonddict)
       THEN [kind |-> "InvalidAdjacencyListException", label |-> label,
             structure |-> st]
       ELSE [kind |-> IF r.ok THEN "parsed" ELSE "initialize raised",
             label |-> <<>>,
             structure |-> [atom |-> acc.atoms, bond |-> acc.bonds, g |-> r.g]]

RECURSIVE join(_, _)
join(list, sep) ==
    IF list = <<>> THEN <<>>
    ELSE IF Len(list) = 1 THEN list[1]
    ELSE list[1] \o sep \o join(Tail(list), sep)

\* a field as toAdjacencyList writes it: "{a,b}" for a list, else the label
written(field) ==
    IF IsList(field) THEN <<"{">> \o join(field, <<",">>) \o <<"}">>
    ELSE field[1]

\* "for atom2, bond in self.getBonds(atom).iteritems()": the descriptors of
\* one atom, here in the order of the ids they are written with
RECURSIVE writeBonds(_, _, _, _)
writeBonds(st, atoms, atom, from) ==
    IF from > Len(atoms) THEN <<>>
    ELSE LET atom2 == atoms[from]
             here == IF {atom, atom2} \in DOMAIN st.g.E
                     THEN <<"{">> \o str(from) \o <<",">>
                          \o written(st.bond[st.g.E[{atom, atom2}]].bondType)
                          \o <<"}", " ">>
                     ELSE <<>>
         IN here \o writeBonds(st, atoms, atom, from + 1)

\* the line of the i-th atom; the closing brace of a list of electron
\* states is followed by no blank
writeAtom(st, atoms, i) ==
    LET atom == st.atom[atoms[i]]
    IN str(i) \o <<" ">>
       \o (IF atom.label # <<>> THEN atom.label \o <<" ">> ELSE <<>>)
       \o written(atom.atomType) \o <<" ">>
       \o written(atom.electronState)
       \o (IF IsList(atom.electronState) THEN <<>> ELSE <<" ">>)
       \o writeBonds(st, atoms, atoms[i], 1)
       \o <<NL>>

RECURSIVE writeAtoms(_, _, _)
writeAtoms(st, atoms, i) ==
    IF i > Len(atoms) THEN <<>>
    ELSE writeAtom(st, atoms, i) \o writeAtoms(st, atoms, i + 1)

\* Structure.toAdjacencyList(label); atoms is self.atoms(), the atoms in the
\* order the graph hands them out
toAdjacencyList(st, atoms, label) ==
    (IF label # <<>> THEN label \o <<NL>> ELSE <<>>) \o writeAtoms(st, atoms, 1)

(***************************************************************************)
(* The texts handed to fromAdjacencyList. A text is written from a shape:  *)
(* a label and lines, a line being an id token, the tokens of the atom and *)
(* the bond descriptors; a descriptor names an atom id and bond types and  *)
(* has a form: "braced" {2,S}, "comma" {2,S}, with a trailing comma,       *)
(* "nocomma" {2S} and "bare" 2,S.                                          *)
(***************************************************************************)
writeDescriptor(d) ==
    LET types == IF d.types = <<>> THEN <<>> ELSE written(d.types)
    IN CASE d.form = "braced" -> <<"{">> \o d.to \o <<",">> \o types \o <<"}">>
         [] d.form = "comma" -> <<"{">> \o d.to \o <<",">> \o types \o <<"}", ",">>
         [] d.form = "nocomma" -> <<"{">> \o d.to \o types \o <<"}">>
         [] d.form = "bare" -> d.to \o <<",">> \o types

writeLine(line) ==
    join((IF line.id = <<>> THEN <<>> ELSE <<line.id>>) \o line.head
         \o [i \in 1..Len(line.descs) |-> writeDescriptor(line.descs[i])],
         <<" ">>) \o <<NL>>

RECURSIVE writeLines(_)
writeLines(lines) ==
    IF lines = <<>> THEN <<>> ELSE writeLine(Head(lines)) \o writeLines(Tail(lines))

Render(sh) ==
    IF sh.kind = "empty" THEN <<>>
    ELSE sh.label \o <<NL>> \o writeLines(sh.lines)

TextLabel == <<"L">>

\* the atom tokens of a well-formed line: plain, with a center label and a
\* list of atom types, with a list of electron states
Heads ==
    {<< <<"C">>, <<"0">> >>,
     << <<"*", "1">>, <<"{", "C", ",", "O", "}">>, <<"0">> >>,
     << <<"C">>, <<"{", "0", ",", "1", "}">> >>}

Listings == {<< <<"S">> >>, << <<"S">>, <<"D">> >>}

\* the descriptors a text of n lines may hold: line a names atom b, which
\* may be itself and may be an id no line has
Mentions(n) == [a : 1..n, b : 1..MaxLines, types : Listings]

MentionCode(m) == m.b * 4 + Len(m.types)

\* a set of descriptors of one line as a sequence, by the id they name
RECURSIVE Listed(_)
Listed(ms) ==
    IF ms = {} THEN <<>>
    ELSE LET m == CHOOSE x \in ms : \A y \in ms : MentionCode(x) <= MentionCode(y)
         IN <<[to |-> str(m.b), types |-> m.types, form |-> "braced"]>>
            \o Listed(ms \ {m})

\* the subsets of S of at most k members
RECURSIVE UpTo(_, _)
UpTo(S, k) ==
    IF k = 0 THEN {{}}
    ELSE LET fewer == UpTo(S, k - 1)
         IN fewer \cup {x \cup {e} : x \in fewer, e \in S}

\* a well-formed text: every token is legal; n lines, the atom tokens of
\* each, and any descriptors
MirrorShape(n, heads, ms) ==
    [kind |-> "mirror", label |-> TextLabel,
     lines |-> [a \in 1..n |->
                  [id |-> str(a), head |-> heads[a],
                   descs |-> Listed({m \in ms : m.a = a})]]]

\* texts with one line of any tokens before the line "2 C 0 {1,S}": ids
\* with a period and ids that are no number, lines that stop early, a
\* lower-case electron state, a code no table holds, descriptors of every
\* form, without a bond type, and with the types in the other order
LineTwo ==
    [id |-> <<"2">>, head |-> << <<"C">>, <<"0">> >>,
     descs |-> <<[to |-> <<"1">>, types |-> << <<"S">>, <<"D">> >>,
                  form |-> "braced"]>>]

TokenIds == {<<"1">>, <<"1", ".">>, <<"x">>}

TokenHeads ==
    {<< <<"C">>, <<"0">> >>, << <<"C">> >>, <<>>,
     << <<"C">>, <<"2", "t">> >>, << <<"Q">>, <<"0">> >>}

TokenDescriptors ==
    [to : {<<"2">>}, types : {<< <<"S">>, <<"D">> >>},
     form : {"braced", "comma", "nocomma", "bare"}]
    \cup [to : {<<"2">>, <<"x">>},
          types : {<<>>, << <<"D">>, <<"S">> >>, << <<"Q">> >>},
          form : {"braced"}]

BlankLine == [id |-> <<>>, head |-> <<>>, descs |-> <<>>]

TokenShapes ==
    {[kind |-> "token", label |-> TextLabel,
      lines |-> <<[id |-> id, head |-> head, descs |-> <<d>>], LineTwo>>] :
        id \in TokenIds, head \in TokenHeads, d \in TokenDescriptors}
    \cup {[kind |-> "token", label |-> TextLabel,
           lines |-> <<[id |-> <<"1">>, head |-> << <<"C">>, <<"0">> >>,
                        descs |-> <<[to |-> <<"2">>,
                                     types |-> << <<"S">>, <<"D">> >>,
                                     form |-> "braced"]>>],
                       BlankLine, LineTwo>>]}

\* texts of two bonded carbons in which a line holds its descriptor of the
\* other atom more than once: "1 C 0 {2,S} {2,S}", "2 C 0 {1,S} {1,S}"
Repeated(d, k) == [i \in 1..k |-> d]

RepeatShape(k1, k2) ==
    [kind |-> "repeat", label |-> TextLabel,
     lines |-> <<[id |-> <<"1">>, head |-> << <<"C">>, <<"0">> >>,
                  descs |-> Repeated([to |-> <<"2">>, types |-> << <<"S">> >>,
                                      form |-> "braced"], k1)],
                 [id |-> <<"2">>, head |-> << <<"C">>, <<"0">> >>,
                  descs |-> Repeated([to |-> <<"1">>, types |-> << <<"S">> >>,
                                      form |-> "braced"], k2)]>>]

\* the text with no line at all
EmptyShape == [kind |-> "empty", label |-> <<>>, lines |-> <<>>]

CodecInit ==
    /\ \/ \E n \in 0..MaxLines :
            \E heads \in [1..n -> Heads], ms \in UpTo(Mentions(n), MaxDescriptors) :
               shape = MirrorShape(n, heads, ms)
       \/ shape \in TokenShapes
       \/ \E k1 \in 1..MaxRepeats, k2 \in 1..MaxRepeats : shape = RepeatShape(k1, k2)
       \/ shape = EmptyShape
    /\ adjlist = Render(shape)
    /\ given = "input"
    /\ structure = NoStructure
    /\ before = structure
    /\ src = <<>>
    /\ apc = "new"
    /\ excLabel = <<>>
    /\ ResIdle
    /\ GraphIdle
    /\ TypesIdle

\* a call of fromAdjacencyList with the text at hand
FromAdjacencyList ==
    /\ apc \in {"new", "written"}
    /\ LET r == fromAdjacencyList(structure, adjlist)
       IN /\ structure' = r.structure
          /\ apc' = r.kind
          /\ excLabel' = r.label
    /\ before' = structure
    /\ UNCHANGED <<shape, adjlist, given, src, resVars, graphVars, typeVars>>

\* self.atoms(): the atoms in an order of the graph's choosing
Orders(V) ==
    {o \in [1..Cardinality(V) -> V] :
       \A i, j \in 1..Cardinality(V) : i # j => o[i] # o[j]}

\* a call of toAdjacencyList, with the default label or with one, on the
\* Structure fromAdjacencyList has made of the caller's text
ToAdjacencyList ==
    /\ apc = "parsed"
    /\ given = "input"
    /\ \E label \in {<<>>, TextLabel}, atoms \in Orders(structure.g.V) :
         /\ adjlist' = toAdjacencyList(structure, atoms, label)
         /\ src' = [structure |-> structure, atoms |-> atoms, label |-> label]
    /\ given' = "output"
    /\ apc' = "written"
    /\ UNCHANGED <<shape, structure, before, excLabel, resVars, graphVars, typeVars>>

CodecNext ==
    \/ FromAdjacencyList
    \/ ToAdjacencyList

SpecCodec == CodecInit /\ [][CodecNext]_vars

Failures == {"InvalidAdjacencyListException", "UnboundLocalError", "initialize raised"}

Members(list) == {list[i] : i \in 1..Len(list)}

\* the Structure read back from the text toAdjacencyList wrote: its i-th
\* atom stands for the i-th atom written
Corresponds(old, atoms, new) ==
    /\ Len(new.atom) = Len(atoms)
    /\ new.g.V = 1..Len(atoms)
    /\ \A i \in 1..Len(atoms) :
         LET a == old.atom[atoms[i]]
             b == new.atom[i]
         IN /\ a.label = b.label
            /\ Members(a.atomType) = Members(b.atomType)
            /\ Members(a.electronState) = Members(b.electronState)
    /\ \A i, j \in 1..Len(atoms) :
         LET p == {atoms[i], atoms[j]}
             q == {i, j}
         IN /\ p \in DOMAIN old.g.E <=> q \in DOMAIN new.g.E
            /\ p \in DOMAIN old.g.E =>
                 Members(old.bond[old.g.E[p]].bondType)
                   = Members(new.bond[new.g.E[q]].bondType)

\* C3: reading back what toAdjacencyList wrote of a Structure made by
\* fromAdjacencyList succeeds, and gives a Structure with as many atoms,
\* the same center label, atom types and electron states on each, and the
\* same bond types between each two.
C3_RoundTrip ==
    (given = "output" /\ apc # "written") =>
        (apc = "parsed" /\ Corresponds(src.structure, src.atoms, structure))

\* a text in which an atom names another that is no line, or whose line
\* does not name it back, or names it back with other bond types
LineOf(sh, id) == {k \in 1..Len(sh.lines) : strip(sh.lines[k].id, ".") = id}

Naming(line, id) ==
    {line.descs[k] : k \in {k \in 1..Len(line.descs) : line.descs[k].to = id}}

MirrorBroken(sh) ==
    \E k \in 1..Len(sh.lines) : \E d \in Members(sh.lines[k].descs) :
        LET a == strip(sh.lines[k].id, ".")
        IN \/ LineOf(sh, d.to) = {}
           \/ \E m \in LineOf(sh, d.to) :
                \/ Naming(sh.lines[m], a) = {}
                \/ \A d1 \in Naming(sh.lines[k], d.to), d2 \in Naming(sh.lines[m], a) :
                     Members(d1.types) # Members(d2.types)

C5_OneExceptionKind ==
    apc \in Failures =>
        /\ apc = "InvalidAdjacencyListException"
        /\ splitlines(adjlist) # <<>>
        /\ excLabel = splitlines(adjlist)[1]

\* C6: when fromAdjacencyList fails the Structure is what it was before the
\* call, and a call changes the Structure only when it succeeds.
C6_AllOrNothing ==
    /\ [](apc \in Failures => structure = before)
    /\ [][structure' # structure => apc' = "parsed"]_vars

C6_Witness ==
    /\ apc = "InvalidAdjacencyListException"
    /\ structure.g.V # {}
    /\ DOMAIN structure.g.E # {}
    /\ structure = before

\* The unordered pairs of atom ids the text records: the id of a line and
\* the id one of its descriptors names
Recorded(sh) ==
    UNION {{{int(strip(sh.lines[k].id, ".")), int(sh.lines[k].descs[i].to)} :
              i \in {x \in 1..Len(sh.lines[k].descs) : intOk(sh.lines[k].descs[x].to)}} :
           k \in {y \in 1..Len(sh.lines) : intOk(strip(sh.lines[y].id, "."))}}

\* No line of the text names the same atom id twice
NoRepeat(sh) ==
    \A k \in 1..Len(sh.lines) : \A i, j \in 1..Len(sh.lines[k].descs) :
        i # j => sh.lines[k].descs[i].to # sh.lines[k].descs[j].to

\* The text of the two single-bonded carbons: "1 C 0 {2,S}", "2 C 0 {1,S}"
TwoCarbons == RepeatShape(1, 1)

C18_NoSelfLoop ==
    apc = "parsed" =>
        /\ \A e \in DOMAIN structure.g.E : Cardinality(e) = 2
        /\ \A i \in 1..Len(structure.bond) :
              structure.bond[i].atoms[1] # structure.bond[i].atoms[2]

(***************************************************************************)
(* updateAtomTypes. An atom type is its label; an atom that holds a list   *)
(* of atom types holds AmbiguousType.                                      *)
(***************************************************************************)
AmbiguousType == "{C,O}"

GenericTypes == {"R", "R!H"}

AtomTypeLabels ==
    {"R", "R!H", "H", "C", "Cs", "Cd", "Cds", "Cdd", "Ct", "CO", "Cb", "Cbf",
     "O", "Os", "Od"}

\* AtomType.element.symbol
elementOf(label) ==
    CASE label \in {"C", "Cs", "Cd", "Cds", "Cdd", "Ct", "CO", "Cb", "Cbf"} -> "C"
      [] label \in {"O", "Os", "Od"} -> "O"
      [] label = "H" -> "H"
      [] OTHER -> "none"

\* Atom.isCarbon, for an atom that holds one atom type with an element
isCarbon(label) == elementOf(label) = "C"

\* Atom.isOxygen: "yes", "no" or "raise". An atom that holds a list has no
\* atom type to ask; what a generic type answers is left open.
isOxygen(label, generic) ==
    IF label = AmbiguousType THEN "raise"
    ELSE IF label \in GenericTypes THEN generic
    ELSE IF elementOf(label) = "O" THEN "yes" ELSE "no"

\* the neighbours of atom1 and the number of its bonds of one type
neighbours(bonds, atom1) == {atom2 \in UNION DOMAIN bonds : {atom1, atom2} \in DOMAIN bonds /\ atom2 # atom1}

count(bonds, atom1, label) ==
    Cardinality({atom2 \in neighbours(bonds, atom1) : bonds[{atom1, atom2}] = label})

\* suggestedType with the test for Cds ahead of the test of carbonyl
suggestedType_CdsFirst(element, single, double, triple, benzene, carbonyl) ==
    IF element = "C" THEN
        IF triple = 1 THEN "Ct"
        ELSE IF single = 3 \/ single = 4 THEN "Cs"
        ELSE IF double = 2 THEN "Cdd"
        ELSE IF double = 1 /\ (single = 1 \/ single = 2) THEN "Cds"
        ELSE IF carbonyl THEN "CO"
        ELSE IF double = 1 THEN "Cd"
        ELSE IF benzene = 1 \/ benzene = 2 THEN "Cb"
        ELSE IF benzene = 3 THEN "Cbf"
        ELSE element
    ELSE IF element = "O" THEN
        IF single = 1 \/ single = 2 THEN "Os"
        ELSE IF double = 1 THEN "Od"
        ELSE element
    ELSE element

\* "Use counts to determine proper atom type"
suggestedType(element, single, double, triple, benzene, carbonyl) ==
    IF element = "C" THEN
        IF triple = 1 THEN "Ct"
        ELSE IF single = 3 \/ single = 4 THEN "Cs"
        ELSE IF double = 2 THEN "Cdd"
        ELSE IF carbonyl THEN "CO"
        ELSE IF double = 1 /\ (single = 1 \/ single = 2) THEN "Cds"
        ELSE IF double = 1 THEN "Cd"
        ELSE IF benzene = 1 \/ benzene = 2 THEN "Cb"
        ELSE IF benzene = 3 THEN "Cbf"
        ELSE element
    ELSE IF element = "O" THEN
        IF single = 1 \/ single = 2 THEN "Os"
        ELSE IF double = 1 THEN "Od"
        ELSE element
    ELSE element

\* reconcile that takes a carbon of the element type to Cd on the way to a
\* double-bonded type
reconcile_ViaCd(label, suggested) ==
    LET element == elementOf(label)
    IN IF label = suggested THEN [atomType |-> label, branch |-> "same"]
       ELSE IF suggested = element \/ suggested = "Cd"
       THEN [atomType |-> label, branch |-> "keep"]
       ELSE IF label = element /\ suggested \in {"Cds", "Cdd", "CO"}
       THEN [atomType |-> "Cd", branch |-> "change"]
       ELSE IF label = element \/ (label = "Cd" /\ suggested \in {"Cds", "Cdd", "CO"})
       THEN [atomType |-> suggested, branch |-> "change"]
       ELSE [atomType |-> label, branch |-> "warn"]

\* reconcile that adopts every suggestion that is not the element
reconcile_AlwaysAdopt(label, suggested) ==
    IF label = suggested THEN [atomType |-> label, branch |-> "same"]
    ELSE IF suggested = elementOf(label) THEN [atomType |-> label, branch |-> "keep"]
    ELSE [atomType |-> suggested, branch |-> "change"]

\* the suggested type against the atom's own: the atom type afterwards and
\* the branch taken
reconcile(label, suggested) ==
    LET element == elementOf(label)
    IN IF label = suggested THEN [atomType |-> label, branch |-> "same"]
       ELSE IF suggested = element \/ suggested = "Cd"
       THEN [atomType |-> label, branch |-> "keep"]
       ELSE IF (label = "Cds" \/ label = "Cdd") /\ suggested = "Cd"
       THEN [atomType |-> label, branch |-> "keep"]
       ELSE IF label = "Cbf" /\ suggested = "Cb"
       THEN [atomType |-> label, branch |-> "keep"]
       ELSE IF label = "Cdd" /\ suggested = "CO"
       THEN [atomType |-> label, branch |-> "keep"]
       ELSE IF label = element
       THEN [atomType |-> suggested, branch |-> "change"]
       ELSE IF label = "Cd" /\ suggested \in {"Cds", "Cdd", "CO"}
       THEN [atomType |-> suggested, branch |-> "change"]
       ELSE [atomType |-> label, branch |-> "warn"]

\* one turn of "for atom1 in self.atoms()": the atom type of atom1
\* afterwards and the branch taken
visit(types, bonds, generic, atom1) ==
    LET label == types[atom1]
        nbs == neighbours(bonds, atom1)
        answers == {isOxygen(types[atom2], generic) : atom2 \in nbs}
        carbonyl == \E atom2 \in nbs :
                       /\ isOxygen(types[atom2], generic) = "yes"
                       /\ bonds[{atom1, atom2}] = "D"
        suggested == suggestedType(elementOf(label),
                                   count(bonds, atom1, "S"), count(bonds, atom1, "D"),
                                   count(bonds, atom1, "T"), count(bonds, atom1, "B"),
                                   isCarbon(label) /\ carbonyl)
    IN IF label = AmbiguousType \/ label \in GenericTypes
       THEN [atomType |-> label, branch |-> "skip"]
       ELSE IF isCarbon(label) /\ "raise" \in answers
       THEN [atomType |-> label, branch |-> "raise"]
       ELSE reconcile(label, suggested)

\* The Structures handed to updateAtomTypes: an atom of any atom type,
\* middle, and up to MaxNeighbours atoms bonded to it by a bond of any
\* type. self.atoms() hands the atoms out in the same order at every call
\* of an unchanged Structure; the atoms are numbered in that order, and
\* the middle is any of them.
BondLabels == {"S", "D", "T", "B"}

NeighbourTypes == {"C", "O", AmbiguousType}

TypesInit ==
    /\ \E n \in 1..(MaxNeighbours + 1) : \E middle \in 1..n :
         /\ atomTypeOf \in [1..n -> AtomTypeLabels \cup {AmbiguousType}]
         /\ \A a \in 1..n : a # middle => atomTypeOf[a] \in NeighbourTypes
         /\ tBond \in [{{middle, a} : a \in (1..n) \ {middle}} -> BondLabels]
    /\ genericOxygen \in {"no", "raise"}
    /\ genericOxygen = "raise" =>
         \E a \in DOMAIN atomTypeOf : atomTypeOf[a] \in GenericTypes
    /\ tpc = "idle"
    /\ tTodo = {}
    /\ type0 = atomTypeOf
    /\ typeIn = atomTypeOf
    /\ type1 = <<>>
    /\ tLast = NoVisit
    /\ counted = <<>>
    /\ suggestion = "none"
    /\ ResIdle
    /\ GraphIdle
    /\ CodecIdle

\* a call of updateAtomTypes, the first and then the second
UpdateCall ==
    /\ tpc \in {"idle", "ended1"}
    /\ tpc' = IF tpc = "idle" THEN "first" ELSE "second"
    /\ tTodo' = DOMAIN atomTypeOf
    /\ typeIn' = atomTypeOf
    /\ tLast' = NoVisit
    /\ UNCHANGED <<genericOxygen, atomTypeOf, tBond, type0, type1, counted, suggestion,
                   resVars, graphVars, codecVars>>

\* one turn of the loop, on the atom self.atoms() hands out next; the call
\* ends when the turn raises or no atom is left
UpdateVisit ==
    /\ tpc \in {"first", "second"}
    /\ tTodo # {}
    /\ LET atom1 == CHOOSE a \in tTodo : \A b \in tTodo : a <= b
           r == visit(atomTypeOf, tBond, genericOxygen, atom1)
           ends == r.branch = "raise" \/ tTodo = {atom1}
       IN /\ atomTypeOf' = [atomTypeOf EXCEPT ![atom1] = r.atomType]
          /\ tLast' = [atom |-> atom1, branch |-> r.branch]
          /\ tTodo' = tTodo \ {atom1}
          /\ tpc' = IF ~ends THEN tpc
                    ELSE IF tpc = "first" THEN "ended1" ELSE "ended2"
          /\ type1' = IF ends /\ tpc = "first" THEN atomTypeOf' ELSE type1
    /\ UNCHANGED <<genericOxygen, tBond, type0, typeIn, counted, suggestion,
                   resVars, graphVars, codecVars>>

TypesNext ==
    \/ UpdateCall
    \/ UpdateVisit

SpecTypes == TypesInit /\ [][TypesNext]_vars

SpecificTypes == {"Cs", "Cds", "Cdd", "Ct", "CO", "Cb", "Cbf", "Os", "Od"}

\* C7: the atom types after the second of two calls of updateAtomTypes in
\* succession are the atom types after the first.
C7_Idempotent == tpc = "ended2" => atomTypeOf = type1

C7_Witness ==
    /\ tpc = "ended2"
    /\ tLast.branch # "raise"
    /\ atomTypeOf = type1
    /\ \E a \in DOMAIN atomTypeOf : type0[a] = "Cd" /\ type1[a] = "Cds"
    /\ \E a \in DOMAIN atomTypeOf : type0[a] = "O" /\ type1[a] = "Os"

\* C8: a call changes the type of an atom only if the type is the one of
\* the bare element, or is Cd and becomes Cds, Cdd or CO; an atom of type
\* Cs, Cds, Cdd, Ct, CO, Cb, Cbf, Os or Od keeps it through the call
\* whatever its bonds are; and a suggestion that conflicts with the atom's
\* type is a warning, after which the call goes on.
C8_NoOverwrite ==
    /\ [][\A a \in DOMAIN atomTypeOf :
            atomTypeOf'[a] # atomTypeOf[a] =>
               \/ atomTypeOf[a] \in {"C", "O", "H"}
               \/ atomTypeOf[a] = "Cd" /\ atomTypeOf'[a] \in {"Cds", "Cdd", "CO"}]_vars
    /\ [](\A a \in DOMAIN atomTypeOf :
            typeIn[a] \in SpecificTypes => atomTypeOf[a] = typeIn[a])
    /\ [][tLast'.branch = "warn" =>
            /\ tLast' # tLast
            /\ tpc' \in (IF tTodo' = {} THEN {"ended1", "ended2"} ELSE {tpc})]_vars

C8_Witness ==
    /\ tpc = "ended1"
    /\ tLast.branch = "warn"
    /\ typeIn[tLast.atom] = "Cs"
    /\ atomTypeOf[tLast.atom] = "Cs"
    /\ Cardinality({p \in DOMAIN tBond : tBond[p] = "D"}) = 2

\* The type lines 609-632 suggest for atom1 of the Structure (types, bonds)
suggestionOf(types, bonds, generic, atom1) ==
    suggestedType(elementOf(types[atom1]),
                  count(bonds, atom1, "S"), count(bonds, atom1, "D"),
                  count(bonds, atom1, "T"), count(bonds, atom1, "B"),
                  /\ isCarbon(types[atom1])
                  /\ \E atom2 \in neighbours(bonds, atom1) :
                        /\ isOxygen(types[atom2], generic) = "yes"
                        /\ bonds[{atom1, atom2}] = "D")

\* C15: an atom that was visited without a raise, holds one atom type that is
\* not generic, had the type of its bare element when the call began and is
\* suggested another type has the suggested type afterwards, Cd included.
C15_BareAdopts ==
    (tLast.atom # 0 /\ tLast.branch \notin {"skip", "raise"}) =>
        LET atom1 == tLast.atom
            suggested == suggestionOf(atomTypeOf, tBond, genericOxygen, atom1)
        IN (typeIn[atom1] = elementOf(typeIn[atom1]) /\ suggested # typeIn[atom1]) =>
               atomTypeOf[atom1] = suggested

(***************************************************************************)
(* The suggestion by itself: an atom of a known element with up to         *)
(* MaxValence bonds, counted by type as the loop of lines 610-617 counts   *)
(* them; carbonyl is set only for a carbon that has a double bond.         *)
(***************************************************************************)
Elements == {"C", "O", "H"}

Counts ==
    {c \in [element : Elements, single : 0..MaxValence, double : 0..MaxValence,
            triple : 0..MaxValence, benzene : 0..MaxValence, carbonyl : BOOLEAN] :
        /\ c.single + c.double + c.triple + c.benzene <= MaxValence
        /\ c.carbonyl => (c.element = "C" /\ c.double >= 1)}

SuggestInit ==
    /\ counted \in Counts
    /\ suggestion = "none"
    /\ genericOxygen = "no"
    /\ atomTypeOf = <<>>
    /\ tBond = <<>>
    /\ tpc = "off"
    /\ tTodo = {}
    /\ type0 = <<>>
    /\ typeIn = <<>>
    /\ type1 = <<>>
    /\ tLast = NoVisit
    /\ ResIdle
    /\ GraphIdle
    /\ CodecIdle

\* lines 619-632 on the counts
Suggest ==
    /\ suggestion = "none"
    /\ suggestion' = suggestedType(counted.element, counted.single, counted.double,
                                   counted.triple, counted.benzene, counted.carbonyl)
    /\ UNCHANGED <<genericOxygen, atomTypeOf, tBond, tpc, tTodo, type0, typeIn, type1,
                   tLast, counted, resVars, graphVars, codecVars>>

SuggestNext == Suggest

SpecSuggest == SuggestInit /\ [][SuggestNext]_vars

\* The first rule, top to bottom, whose test passes, or else the default
FirstMatch(rules, default) ==
    IF \E i \in DOMAIN rules : rules[i][1]
    THEN rules[CHOOSE i \in DOMAIN rules :
                  rules[i][1] /\ \A j \in 1..(i - 1) : ~rules[j][1]][2]
    ELSE default

CarbonRules(c) ==
    << <<c.triple = 1, "Ct">>,
       <<c.single \in {3, 4}, "Cs">>,
       <<c.double = 2, "Cdd">>,
       <<c.carbonyl, "CO">>,
       <<c.double = 1 /\ c.single \in {1, 2}, "Cds">>,
       <<c.double = 1, "Cd">>,
       <<c.benzene \in {1, 2}, "Cb">>,
       <<c.benzene = 3, "Cbf">> >>

OxygenRules(c) ==
    << <<c.single \in {1, 2}, "Os">>,
       <<c.double = 1, "Od">> >>

====
